---- MODULE Spec2Model ----
(***************************************************************************)
(* scripts/geocode.py: the place / address resolution pipeline with its    *)
(* persistent cache.  One run of main() loads the cache, resolves the      *)
(* records of the three datasets one after the other (find_place per query *)
(* candidate, then geocode_address) and saves the cache in a finally       *)
(* block.  The provider's answers are the nondeterministic inputs.         *)
(***************************************************************************)
EXTENDS Integers, Sequences, FiniteSets, TLC

VARIABLES disk, cache, pc, stage, throttle, cur, done, prev, call, answers,
          calls, live, written, nrec, nrun, saves, result, raising, owner,
          api_key, force_refresh

vars == <<disk, cache, pc, stage, throttle, cur, done, prev, call, answers,
          calls, live, written, nrec, nrun, saves, result, raising, owner,
          api_key, force_refresh>>

-----------------------------------------------------------------------------
(* Bounds *)

\* records read from the datasets in one behaviour (all runs together)
MaxRecords == 2
\* runs of main() in one behaviour
MaxRuns == 2
\* calls of find_place and geocode_address on one cache, outside main()
MaxCalls == 3

-----------------------------------------------------------------------------
(* Values *)

\* Python None; also the value of a cache key recorded as not found
None == [none |-> TRUE]

\* JSON null in the cache file
JNull == [null |-> TRUE]

\* the empty dict
EmptyDict == <<>>

\* cache[key] = value on a dict
Put(mapping, key, value) == (key :> value) @@ mapping

\* the record fields the datasets supply
Names == {"", "n"}
Addresses == {"", "place:n"}
Areas == {"r"}

\* --throttle: seconds between requests, in hundredths (default 0.25)
Throttles == {25}

\* the arguments of the calls made on one cache outside main()
CallQueries == {"", "n"}
CallAddresses == {"", "a", "place:n"}
CallThrottles == {0, 25}

\* a JSON number and a JSON string in a provider's payload
JNum(n) == [num |-> n]
JStr(text) == [str |-> text]

\* float(v) on a payload value: a number, or a string that spells one;
\* any other string raises ValueError
CanFloat(v) == "num" \in DOMAIN v \/ v.str \in {"35", "139"}

Float(v) ==
  IF "num" \in DOMAIN v THEN v.num
  ELSE IF v.str = "35" THEN 35
  ELSE 139

\* the coordinates the provider answers with
Locations ==
  {[lat |-> JNum(35), lng |-> JNum(139)],
   [lat |-> JStr("35"), lng |-> JNum(139)]}

\* coordinates float() does not accept
BadLocations == {[lat |-> JStr("x"), lng |-> JNum(139)]}

-----------------------------------------------------------------------------
(* Cache file *)

\* value.get("place_id") is truthy
HasPlaceId(value) == "place_id" \in DOMAIN value /\ value.place_id # ""

\* value["lat"] and value["lng"] exist and float() accepts them
Coercible(value) == {"lat", "lng"} \subseteq DOMAIN value

_normalize_coords(value) ==
  IF HasPlaceId(value)
    THEN [lat |-> value.lat, lng |-> value.lng, place_id |-> value.place_id]
    ELSE [lat |-> value.lat, lng |-> value.lng]

\* the three things the cache path can hold
FileMissing == [state |-> "missing"]
FileInvalid == [state |-> "invalid"]
FileJson(data) == [state |-> "json", data |-> data]

\* json.dump(cache, ...): None becomes null, a dict an object with its keys
JsonDump(mapping) ==
  [addr \in DOMAIN mapping |->
     IF mapping[addr] = None THEN JNull ELSE mapping[addr]]

load_cache(file) ==
  IF file.state = "missing" THEN [raised |-> FALSE, cache |-> EmptyDict]
  ELSE IF file.state = "invalid" THEN [raised |-> TRUE, cache |-> EmptyDict]
  ELSE IF \E addr \in DOMAIN file.data :
            file.data[addr] # JNull /\ ~Coercible(file.data[addr])
    THEN [raised |-> TRUE, cache |-> EmptyDict]
    ELSE [raised |-> FALSE,
          cache |-> [addr \in DOMAIN file.data |->
                       IF file.data[addr] = JNull
                         THEN None
                         ELSE _normalize_coords(file.data[addr])]]

\* path.open("w"): the file exists and is empty until json.dump has written
save_cache_open(file) == FileInvalid

save_cache_dump(mapping) == FileJson(JsonDump(mapping))

-----------------------------------------------------------------------------
(* Outbound calls and what they answer *)

Event(name, arg) == [call |-> name, arg |-> arg]

Sleep(seconds) == IF seconds # 0 THEN <<Event("sleep", "")>> ELSE <<>>

\* no request is made
NoResponse == [exc |-> FALSE, status_code |-> 0, status |-> "", items |-> <<>>]

HttpOk(status, items) ==
  [exc |-> FALSE, status_code |-> 200, status |-> status, items |-> items]

\* session.post / session.get / response.json() raises
Raises == [exc |-> TRUE, status_code |-> 0, status |-> "", items |-> <<>>]

HttpError == [exc |-> FALSE, status_code |-> 500, status |-> "", items |-> <<>>]

\* Places API (New): {"places": [{"id": ..., "location": {...}}]}
NewPlaces ==
  {[id |-> "places/p1", location |-> EmptyDict]}
    \cup {[id |-> "places/p1", location |-> [latitude |-> x.lat]] :
            x \in Locations}
    \cup {[id |-> i, location |-> [latitude |-> x.lat, longitude |-> x.lng]] :
            i \in {"places/", "places/p1"}, x \in Locations \cup BadLocations}

NewResponses ==
  {Raises, HttpError, HttpOk("", <<>>)} \cup {HttpOk("", <<p>>) : p \in NewPlaces}

\* Places API (Legacy): {"status": ..., "candidates": [{"place_id", "geometry"}]}
LegacyCandidates ==
  {[geometry |-> [location |-> x]] : x \in Locations}
    \cup {[place_id |-> i, geometry |-> [location |-> x]] :
            i \in {"", "p2"}, x \in Locations \cup BadLocations}

LegacyResponses ==
  {Raises, HttpError, HttpOk("ZERO_RESULTS", <<>>)}
    \cup {HttpOk("OK", <<c>>) : c \in LegacyCandidates}

\* Geocoding API: {"status": ..., "results": [{"geometry", "place_id"?}]};
\* a first result that makes line 245-250 raise is the empty results list
GeoResults ==
  {[geometry |-> [location |-> x]] : x \in Locations}
    \cup {[geometry |-> [location |-> x], place_id |-> i] :
            x \in Locations, i \in {"", "g1"}}

GeoStatuses ==
  {"ZERO_RESULTS", "NOT_FOUND", "OVER_DAILY_LIMIT", "OVER_QUERY_LIMIT",
   "REQUEST_DENIED", "UNKNOWN_ERROR"}

GeoResponses ==
  {Raises, HttpError} \cup {HttpOk(s, <<>>) : s \in GeoStatuses \cup {"OK"}}
    \cup {HttpOk("OK", <<r>>) : r \in GeoResults}

\* place.get("id", "").replace("places/", "")
RemovePlacesPrefix(id) ==
  CASE id = "places/p1" -> "p1"
    [] id = "places/" -> ""
    [] OTHER -> id

find_place_new(query, response, seconds) ==
  LET request == <<Event("new", query)>> IN
  IF response.exc
    THEN [raised |-> TRUE, value |-> None, events |-> request]
  ELSE IF response.status_code # 200
    THEN [raised |-> FALSE, value |-> None, events |-> request]
  ELSE IF response.items = <<>>
    THEN [raised |-> FALSE, value |-> None, events |-> request]
  ELSE LET place == response.items[1]
           location == place.location
           place_id == RemovePlacesPrefix(place.id)
       IN IF location # EmptyDict /\ place_id # ""
            THEN IF /\ {"latitude", "longitude"} \subseteq DOMAIN location
                      /\ CanFloat(location.latitude)
                      /\ CanFloat(location.longitude)
                   THEN [raised |-> FALSE,
                         value |-> [lat |-> Float(location.latitude),
                                    lng |-> Float(location.longitude),
                                    place_id |-> place_id],
                         events |-> request \o Sleep(seconds)]
                   \* KeyError or ValueError in the returned dict, after
                   \* the sleep
                   ELSE [raised |-> TRUE, value |-> None,
                         events |-> request \o Sleep(seconds)]
            ELSE [raised |-> FALSE, value |-> None, events |-> request]

find_place_legacy(query, response, seconds) ==
  LET request == <<Event("legacy", query)>> IN
  IF response.exc
    THEN [raised |-> TRUE, value |-> None, events |-> request]
  ELSE IF response.status_code # 200
    THEN [raised |-> FALSE, value |-> None, events |-> request]
  ELSE IF response.status = "OK" /\ response.items # <<>>
    THEN LET candidate == response.items[1]
             location == candidate.geometry.location
         IN IF /\ CanFloat(location.lat)
               /\ CanFloat(location.lng)
               /\ "place_id" \in DOMAIN candidate
              THEN [raised |-> FALSE,
                    value |-> [lat |-> Float(location.lat),
                               lng |-> Float(location.lng),
                               place_id |-> candidate.place_id],
                    events |-> request \o Sleep(seconds)]
              \* ValueError or KeyError in the returned dict, after the
              \* sleep
              ELSE [raised |-> TRUE, value |-> None,
                    events |-> request \o Sleep(seconds)]
    ELSE [raised |-> FALSE, value |-> None, events |-> request]

\* lines 185 and 222: "if not query", "if not address"
EmptyInput_searched(text) == FALSE

EmptyInput(text) == text = ""

\* "if not result": the structured search gave nothing (or raised)
NeedsLegacy(query, r1, seconds) ==
  LET new == find_place_new(query, r1, seconds)
  IN new.raised \/ new.value = None

\* line 189: "if cache_key in cache"
PlaceCached_never(cache_key, mapping) == FALSE

PlaceCached(cache_key, mapping) == cache_key \in DOMAIN mapping

\* line 207: "cache[cache_key] = result"
PlaceStore_skip(mapping, cache_key, res) == mapping

PlaceStore_found(mapping, cache_key, res) ==
  IF res = None THEN mapping ELSE Put(mapping, cache_key, res)

PlaceStore(mapping, cache_key, res) == Put(mapping, cache_key, res)

\* lines 197-198 and 204-205: "except Exception: pass"
Swallow_reraises(raised) == raised

Swallow(raised) == FALSE

find_place(query, mapping, r1, r2, seconds) ==
  IF EmptyInput(query)
    THEN [raised |-> FALSE, value |-> None, cache |-> mapping, events |-> <<>>,
          caught |-> FALSE]
  ELSE LET cache_key == "place:" \o query IN
    IF PlaceCached(cache_key, mapping)
      THEN [raised |-> FALSE, value |-> mapping[cache_key], cache |-> mapping,
            events |-> <<>>, caught |-> FALSE]
      ELSE LET new == find_place_new(query, r1, seconds)
               legacy == find_place_legacy(query, r2, seconds)
               second == NeedsLegacy(query, r1, seconds) /\ ~Swallow(new.raised)
               res == IF ~second THEN new.value
                      ELSE IF legacy.raised THEN None ELSE legacy.value
               events == new.events \o (IF second THEN legacy.events ELSE <<>>)
               excepted == new.raised \/ (second /\ legacy.raised)
           IN IF Swallow(new.raised) \/ (second /\ Swallow(legacy.raised))
                THEN [raised |-> TRUE, value |-> None, cache |-> mapping,
                      events |-> events, caught |-> FALSE]
                ELSE [raised |-> FALSE, value |-> res,
                      cache |-> PlaceStore(mapping, cache_key, res),
                      events |-> events, caught |-> excepted]

\* lines 225-228: the entry answers without a request
GeocodeCached_found(address, mapping) ==
  /\ address \in DOMAIN mapping
  /\ mapping[address] # None
  /\ HasPlaceId(mapping[address])

GeocodeCached_any(address, mapping) == address \in DOMAIN mapping

GeocodeCached(address, mapping) ==
  /\ address \in DOMAIN mapping
  /\ (mapping[address] = None \/ HasPlaceId(mapping[address]))

\* lines 240, 258, 261: "raise GeocodeError(...)"; an exception of
\* session.get, response.json() or payload["results"][0] leaves the same way
GeocodeRaise_marked(address, mapping, request) ==
  [raised |-> TRUE, value |-> None, cache |-> Put(mapping, address, None),
   events |-> request]

GeocodeRaise(address, mapping, request) ==
  [raised |-> TRUE, value |-> None, cache |-> mapping, events |-> request]

\* lines 245-253: the entry built from the first result
GeocodeEntry_latonly(res) == [lat |-> Float(res.geometry.location.lat)]

GeocodeEntry_bare(res) ==
  [lat |-> Float(res.geometry.location.lat),
   lng |-> Float(res.geometry.location.lng)]

GeocodeEntry(res) ==
  LET location == res.geometry.location
  IN IF HasPlaceId(res)
       THEN [lat |-> Float(location.lat), lng |-> Float(location.lng),
             place_id |-> res.place_id]
       ELSE [lat |-> Float(location.lat), lng |-> Float(location.lng)]

geocode_address(address, mapping, response, seconds) ==
  IF EmptyInput(address)
    THEN [raised |-> FALSE, value |-> None, cache |-> mapping, events |-> <<>>]
  ELSE IF GeocodeCached(address, mapping)
    THEN [raised |-> FALSE, value |-> mapping[address], cache |-> mapping,
          events |-> <<>>]
  ELSE LET request == <<Event("geocode", address)>>
           failed == GeocodeRaise(address, mapping, request)
       IN
    IF response.exc \/ response.status_code # 200 THEN failed
    ELSE IF response.status = "OK"
      THEN IF response.items = <<>> THEN failed
           ELSE LET entry == GeocodeEntry(response.items[1])
                IN [raised |-> FALSE, value |-> entry,
                    cache |-> Put(mapping, address, entry),
                    events |-> request \o Sleep(seconds)]
    ELSE IF response.status \in {"ZERO_RESULTS", "NOT_FOUND"}
      THEN [raised |-> FALSE, value |-> None,
            cache |-> Put(mapping, address, None),
            events |-> request \o Sleep(seconds)]
    ELSE failed

-----------------------------------------------------------------------------
(* Bookkeeping on the resolution in progress *)

\* the outbound requests among the events of a call
LiveEvents(events) == SelectSeq(events, LAMBDA e : e.call # "sleep")

Count(counts, e) == IF e \in DOMAIN counts THEN counts[e] ELSE 0

RECURSIVE Tally(_, _)
Tally(counts, events) ==
  IF events = <<>> THEN counts
  ELSE Tally(Put(counts, Head(events), Count(counts, Head(events)) + 1),
             Tail(events))

\* the keys whose entry differs between two mappings
Changed(old, new) ==
  {k \in DOMAIN new : k \notin DOMAIN old \/ old[k] # new[k]}

\* the entry of a key before a call: <<>> when absent
Before(mapping, key) ==
  IF key \in DOMAIN mapping THEN <<mapping[key]>> ELSE <<>>

NoRecord ==
  [queries |-> <<>>, address |-> "", qi |-> 0, nlive |-> 0, wrote |-> {},
   geo |-> 0]

\* a tier call as the step that made it leaves it: its argument, the entry
\* of its key before it, what it returned and the requests and sleeps it made
Called(op, arg, pre, r) ==
  <<[op |-> op, arg |-> arg, pre |-> pre, ret |-> r.value,
     raised |-> r.raised, events |-> r.events,
     caught |-> "caught" \in DOMAIN r /\ r.caught]>>

\* a resolution as the step that ended it leaves it: what it was asked, what
\* it answered, what it cost, and whether the resolution before it in this
\* run was asked the same and what that one answered
Finished(record, outcome, tier, hit, raised) ==
  <<[queries |-> record.queries, address |-> record.address,
     outcome |-> outcome, tier |-> tier, hit |-> hit, asked |-> record.qi,
     nlive |-> record.nlive, wrote |-> record.wrote, geo |-> record.geo,
     raised |-> raised,
     again |-> /\ prev # <<>>
               /\ prev[1].queries = record.queries
               /\ prev[1].address = record.address,
     before |-> IF prev # <<>> THEN prev[1].outcome ELSE None,
     cost |-> IF prev # <<>> THEN prev[1].nlive ELSE 0]>>

Remember(record, outcome) ==
  <<[queries |-> record.queries, address |-> record.address,
     outcome |-> outcome, nlive |-> record.nlive]>>

-----------------------------------------------------------------------------
(* main() *)

InLoop == {"in_restaurants", "in_tokyo", "in_kyoto"}

\* the statement after a dataset: the next "if not args.skip_..." or the
\* finally block
AfterDataset(at) ==
  CASE at \in {"at_restaurants", "in_restaurants"} -> "at_tokyo"
    [] at \in {"at_tokyo", "in_tokyo"} -> "at_kyoto"
    [] OTHER -> "finally"

\* where an exception raised inside the try block goes: lines 613-614
OnRaise_propagates == "exited"

OnRaise == "finally"

\* a file of valid JSON with an entry that has no "lng"
FileUncoercible == FileJson("place:n" :> [lat |-> 35])

\* line 587: "if not args.api_key"
NoCredential_ignored(key) == FALSE

NoCredential(key) == key = ""

\* line 599, outside the try block: an exception of load_cache leaves main()
LoadFailed_discarded(loaded) == FALSE

LoadFailed(loaded) == loaded.raised

Init ==
  /\ disk \in {FileMissing, FileInvalid, FileUncoercible}
  /\ cache = EmptyDict
  /\ pc = "exited"
  /\ stage = "next"
  /\ throttle = 0
  /\ cur = NoRecord
  /\ done = <<>>
  /\ prev = <<>>
  /\ call = <<>>
  /\ answers = <<>>
  /\ calls = 0
  /\ live = EmptyDict
  /\ written = {}
  /\ nrec = 0
  /\ nrun = 0
  /\ saves = 0
  /\ result = "none"
  /\ raising = FALSE
  /\ owner = EmptyDict
  /\ api_key = ""
  /\ force_refresh = FALSE

\* lines 584-600: arguments, credential check, load_cache
MainStart ==
  /\ pc = "exited"
  /\ nrun < MaxRuns
  /\ nrun' = nrun + 1
  /\ \E key \in {"", "key"}, seconds \in Throttles :
       /\ api_key' = key
       /\ throttle' = seconds
       /\ IF NoCredential(key)
            THEN /\ pc' = "exited"
                 /\ result' = "exit2"
                 /\ cache' = EmptyDict
            ELSE LET loaded == load_cache(disk) IN
                 IF LoadFailed(loaded)
                   THEN /\ pc' = "exited"
                        /\ result' = "load_error"
                        /\ cache' = EmptyDict
                   ELSE /\ pc' = "loaded"
                        /\ result' = "running"
                        /\ cache' = loaded.cache
  /\ stage' = "next"
  /\ cur' = NoRecord
  /\ done' = <<>>
  /\ prev' = <<>>
  /\ call' = <<>>
  /\ live' = EmptyDict
  /\ written' = {}
  /\ saves' = 0
  /\ raising' = FALSE
  /\ force_refresh' = FALSE
  /\ UNCHANGED <<disk, nrec, answers, calls, owner>>

\* lines 603-605: "if args.force_refresh: ... cache_before.clear()"
ForceCleared_kept(flag) == FALSE

ForceCleared(flag) == flag

\* lines 602-605: entering the try block; force_refresh holds
\* args.force_refresh from the moment line 603 has read it
ForceRefresh ==
  /\ pc = "loaded"
  /\ \E flag \in BOOLEAN :
       /\ force_refresh' = flag
       /\ cache' = IF ForceCleared(flag) THEN EmptyDict ELSE cache
  /\ pc' = "at_restaurants"
  /\ UNCHANGED <<disk, stage, throttle, cur, done, prev, call, live, written,
                 nrec, nrun, saves, result, raising, answers, calls, owner,
                 api_key>>

\* lines 607-612: a dataset is skipped, its input file is missing, or its
\* records are read
EnterDataset ==
  /\ pc \in {"at_restaurants", "at_tokyo", "at_kyoto"}
  /\ \E skip \in BOOLEAN, input_exists \in BOOLEAN :
       IF skip THEN pc' = AfterDataset(pc) /\ UNCHANGED raising
       ELSE IF ~input_exists THEN pc' = OnRaise /\ raising' = TRUE
       ELSE /\ pc' = (CASE pc = "at_restaurants" -> "in_restaurants"
                        [] pc = "at_tokyo" -> "in_tokyo"
                        [] OTHER -> "in_kyoto")
            /\ UNCHANGED raising
  /\ done' = <<>>
  /\ call' = <<>>
  /\ UNCHANGED <<disk, cache, stage, throttle, cur, prev, live, written, nrec,
                 nrun, saves, result, answers, calls, owner, api_key,
                 force_refresh>>

\* the loop over the records is exhausted
EndDataset ==
  /\ pc \in InLoop
  /\ stage = "next"
  /\ pc' = AfterDataset(pc)
  /\ done' = <<>>
  /\ call' = <<>>
  /\ UNCHANGED <<disk, cache, stage, throttle, cur, prev, live, written, nrec,
                 nrun, saves, result, raising, answers, calls, owner, api_key,
                 force_refresh>>

\* "if coords: break" (process_shops line 402)
Stops_never(coords) == FALSE

Stops(coords) == coords # None

\* "if not coords and address" (process_restaurants line 314, process_shops
\* lines 407-409)
FallsBack_always(coords, address) == address # ""

FallsBack(coords, address) == coords = None /\ address # ""

\* which tier gave the coords the candidate loop ended with
PlaceTier(coords) == IF coords # None THEN "place" ELSE "none"

\* the resolution of a record ends
Finish(record, outcome, tier, hit, raised) ==
  /\ stage' = "next"
  /\ cur' = NoRecord
  /\ done' = Finished(record, outcome, tier, hit, raised)
  /\ prev' = Remember(record, outcome)

\* a record enters the resolution with its query candidates and its address
Resolve(queries, address) ==
  LET record == [NoRecord EXCEPT !.queries = queries, !.address = address]
  IN /\ nrec' = nrec + 1
     /\ call' = <<>>
     /\ IF queries # <<>>
          THEN /\ stage' = "places"
               /\ cur' = [record EXCEPT !.qi = 1]
               /\ done' = <<>>
               /\ UNCHANGED prev
        ELSE IF FallsBack(None, address)
          THEN /\ stage' = "geo"
               /\ cur' = record
               /\ done' = <<>>
               /\ UNCHANGED prev
        ELSE Finish(record, None, "none", 0, FALSE)
     /\ UNCHANGED <<disk, cache, pc, throttle, live, written, nrun, saves,
                    result, raising, answers, calls, owner, api_key,
                    force_refresh>>

\* process_restaurants, lines 300-311
RestaurantRow ==
  /\ pc = "in_restaurants"
  /\ stage = "next"
  /\ nrec < MaxRecords
  /\ \E show_name \in Names, address \in Addresses :
       LET name == IF show_name # "" THEN show_name ELSE "Unknown"
       IN Resolve(IF name # "" /\ name # "Unknown" /\ address # ""
                    THEN <<name \o " " \o address>>
                    ELSE <<>>,
                  address)

\* process_shops line 387: a shop without a name is not resolved
NamelessShop ==
  /\ pc \in {"in_tokyo", "in_kyoto"}
  /\ stage = "next"
  /\ nrec < MaxRecords
  /\ nrec' = nrec + 1
  /\ done' = <<>>
  /\ call' = <<>>
  /\ UNCHANGED <<disk, cache, pc, stage, throttle, cur, prev, live, written,
                 nrun, saves, result, raising, answers, calls, owner, api_key,
                 force_refresh>>

\* process_tokyo_shops: query_builder, lines 453-457
TokyoQueries(name, address) ==
  IF address # "" THEN <<name \o " " \o address>> ELSE <<name>>

TokyoShop ==
  /\ pc = "in_tokyo"
  /\ stage = "next"
  /\ nrec < MaxRecords
  /\ \E name \in Names \ {""}, address \in Addresses :
       Resolve(TokyoQueries(name, address), address)

\* process_kyoto_shops: query_builder, lines 500-506.  The suffix the source
\* appends is the city's name in kanji; it is written here in ASCII.
KyotoQueries(name, area_name) ==
  (IF area_name # "" THEN <<name \o " " \o area_name \o " Kyoto">> ELSE <<>>)
    \o <<name \o " Kyoto">>

KyotoShop ==
  /\ pc = "in_kyoto"
  /\ stage = "next"
  /\ nrec < MaxRecords
  /\ \E name \in Names \ {""}, area_name \in Areas, address \in Addresses :
       Resolve(KyotoQueries(name, area_name), address)

\* one find_place call of the candidate loop, and the loop's next step
FindPlaceStep ==
  /\ pc \in InLoop
  /\ stage = "places"
  /\ LET query == cur.queries[cur.qi]
         cache_key == "place:" \o query
         cached == PlaceCached(cache_key, cache)
     IN \E r \in {find_place(query, cache, r1, r2, throttle) :
                     r1 \in (IF cached THEN {NoResponse} ELSE NewResponses),
                     r2 \in (IF cached THEN {NoResponse} ELSE LegacyResponses)} :
          LET requests == LiveEvents(r.events)
              record == [cur EXCEPT !.nlive = @ + Len(requests),
                                    !.wrote = @ \cup Changed(cache, r.cache)]
          IN /\ cache' = r.cache
             /\ call' = Called("find_place", query, Before(cache, cache_key), r)
             /\ live' = Tally(live, requests)
             /\ written' = written \cup Changed(cache, r.cache)
             /\ IF r.raised
                  THEN /\ Finish(record, None, "none", 0, TRUE)
                       /\ pc' = OnRaise
                       /\ raising' = TRUE
                ELSE IF ~Stops(r.value) /\ cur.qi < Len(cur.queries)
                  THEN /\ stage' = "places"
                       /\ cur' = [record EXCEPT !.qi = @ + 1]
                       /\ done' = <<>>
                       /\ UNCHANGED <<prev, pc, raising>>
                ELSE IF FallsBack(r.value, cur.address)
                  THEN /\ stage' = "geo"
                       /\ cur' = record
                       /\ done' = <<>>
                       /\ UNCHANGED <<prev, pc, raising>>
                ELSE /\ Finish(record, r.value, PlaceTier(r.value),
                               IF r.value # None THEN cur.qi ELSE 0, FALSE)
                     /\ UNCHANGED <<pc, raising>>
  /\ UNCHANGED <<disk, throttle, nrec, nrun, saves, result, answers, calls,
                 owner, api_key,
                 force_refresh>>

\* the geocode_address call of a record, and what follows it
GeocodeStep ==
  /\ pc \in InLoop
  /\ stage = "geo"
  /\ LET address == cur.address
     IN \E r \in {geocode_address(address, cache, response, throttle) :
                     response \in (IF GeocodeCached(address, cache)
                                     THEN {NoResponse} ELSE GeoResponses)} :
          LET requests == LiveEvents(r.events)
              record == [cur EXCEPT !.nlive = @ + Len(requests),
                                    !.wrote = @ \cup Changed(cache, r.cache),
                                    !.geo = @ + 1]
          IN /\ cache' = r.cache
             /\ call' = Called("geocode_address", address,
                               Before(cache, address), r)
             /\ live' = Tally(live, requests)
             /\ written' = written \cup Changed(cache, r.cache)
             /\ Finish(record, r.value, "geo", 0, r.raised)
             /\ IF r.raised
                  THEN pc' = OnRaise /\ raising' = TRUE
                  ELSE UNCHANGED <<pc, raising>>
  /\ UNCHANGED <<disk, throttle, nrec, nrun, saves, result, answers, calls,
                 owner, api_key,
                 force_refresh>>

\* save_cache, lines 65-66: the file is opened for writing
SaveOpen ==
  /\ pc = "finally"
  /\ disk' = save_cache_open(disk)
  /\ pc' = "dumping"
  /\ done' = <<>>
  /\ call' = <<>>
  /\ UNCHANGED <<cache, stage, throttle, cur, prev, live, written, nrec, nrun,
                 saves, result, raising, answers, calls, owner, api_key,
                 force_refresh>>

\* save_cache, line 67, and the end of main(): the pending exception goes
\* on, or main returns 0
SaveDump ==
  /\ pc = "dumping"
  /\ disk' = save_cache_dump(cache)
  /\ saves' = saves + 1
  /\ pc' = "exited"
  /\ result' = IF raising THEN "error" ELSE "exit0"
  /\ raising' = FALSE
  /\ UNCHANGED <<cache, stage, throttle, cur, done, prev, call, live, written,
                 nrec, nrun, answers, calls, owner, api_key,
                 force_refresh>>

\* the process is killed while it is in save_cache, before the file is
\* opened or between the opening and the end of json.dump
Crash ==
  /\ pc \in {"finally", "dumping"}
  /\ pc' = "exited"
  /\ result' = "crashed"
  /\ raising' = FALSE
  /\ done' = <<>>
  /\ call' = <<>>
  /\ UNCHANGED <<disk, cache, stage, throttle, cur, prev, live, written, nrec,
                 nrun, saves, answers, calls, owner, api_key,
                 force_refresh>>

Next ==
  \/ MainStart
  \/ ForceRefresh
  \/ EnterDataset
  \/ EndDataset
  \/ RestaurantRow
  \/ NamelessShop
  \/ TokyoShop
  \/ KyotoShop
  \/ FindPlaceStep
  \/ GeocodeStep
  \/ SaveOpen
  \/ SaveDump
  \/ Crash

Spec == Init /\ [][Next]_vars

-----------------------------------------------------------------------------
(* find_place and geocode_address called on one cache, outside main() *)

InitCall ==
  /\ disk = FileMissing
  /\ cache = EmptyDict
  /\ pc = "calls"
  /\ stage = "next"
  /\ throttle \in CallThrottles
  /\ cur = NoRecord
  /\ done = <<>>
  /\ prev = <<>>
  /\ call = <<>>
  /\ answers = <<>>
  /\ calls = 0
  /\ live = EmptyDict
  /\ written = {}
  /\ nrec = 0
  /\ nrun = 0
  /\ saves = 0
  /\ result = "none"
  /\ raising = FALSE
  /\ owner = EmptyDict
  /\ api_key = "key"
  /\ force_refresh = FALSE

\* which of the two functions stored the entry of each key: a call that
\* made a request and did not raise has assigned cache[key] (lines 207, 247,
\* 255)
Owned(owners, op, key, r) ==
  IF ~r.raised /\ LiveEvents(r.events) # <<>>
    THEN Put(owners, key, op)
    ELSE owners

\* find_place(query, session, api_key, cache, throttle=throttle)
CallFindPlace ==
  /\ pc = "calls"
  /\ calls < MaxCalls
  /\ \E query \in CallQueries :
       LET cache_key == "place:" \o query
           cached == EmptyInput(query) \/ PlaceCached(cache_key, cache)
       IN \E r1 \in (IF cached THEN {NoResponse} ELSE NewResponses) :
          \E r2 \in (IF cached \/ ~NeedsLegacy(query, r1, throttle)
                       THEN {NoResponse} ELSE LegacyResponses) :
            LET r == find_place(query, cache, r1, r2, throttle)
            IN /\ cache' = r.cache
               /\ call' = Called("find_place", query,
                                 Before(cache, cache_key), r)
               /\ answers' = <<r1, r2>>
               /\ owner' = Owned(owner, "find_place", cache_key, r)
  /\ calls' = calls + 1
  /\ UNCHANGED <<disk, pc, stage, throttle, cur, done, prev, live, written,
                 nrec, nrun, saves, result, raising, api_key,
                 force_refresh>>

\* geocode_address(address, session, api_key, cache, throttle=throttle)
CallGeocodeAddress ==
  /\ pc = "calls"
  /\ calls < MaxCalls
  /\ \E address \in CallAddresses :
       \E response \in (IF EmptyInput(address)
                            \/ GeocodeCached(address, cache)
                          THEN {NoResponse} ELSE GeoResponses) :
         LET r == geocode_address(address, cache, response, throttle)
         IN /\ cache' = r.cache
            /\ call' = Called("geocode_address", address,
                              Before(cache, address), r)
            /\ answers' = <<response>>
            /\ owner' = Owned(owner, "geocode_address", address, r)
  /\ calls' = calls + 1
  /\ UNCHANGED <<disk, pc, stage, throttle, cur, done, prev, live, written,
                 nrec, nrun, saves, result, raising, api_key,
                 force_refresh>>

NextCall ==
  \/ CallFindPlace
  \/ CallGeocodeAddress

SpecCall == InitCall /\ [][NextCall]_vars

-----------------------------------------------------------------------------
(* Properties *)

\* the tier call made by the step that led to this state
HasCall(op) == call # <<>> /\ call[1].op = op

\* the requests of that call
Requests == IF call = <<>> THEN <<>> ELSE LiveEvents(call[1].events)

\* a Found entry without a usable identifier
Stale(entry) == entry # None /\ ~HasPlaceId(entry)

\* the cache key of a query candidate
PlaceKey(query) == "place:" \o query

\* the provider statuses geocode_address does not raise on
Handled == {"OK", "ZERO_RESULTS", "NOT_FOUND"}

\* the key a tier call looks up
KeyOf(c) == IF c.op = "find_place" THEN PlaceKey(c.arg) ELSE c.arg

\* the identifiers the two place searches can answer with
NewIds == {RemovePlacesPrefix(p.id) : p \in NewPlaces} \ {""}
LegacyIds ==
  {c.place_id : c \in {x \in LegacyCandidates : "place_id" \in DOMAIN x}}

\* every query candidate of a finished resolution is recorded as a miss
AllMiss(d) ==
  \A j \in 1..Len(d.queries) :
    /\ PlaceKey(d.queries[j]) \in DOMAIN cache
    /\ cache[PlaceKey(d.queries[j])] = None

\* C1 as stated: a resolution asked the same (candidates, address) as the
\* one that returned before it in the run makes no request and returns the
\* same outcome.
C1_Original ==
  done # <<>> /\ done[1].again =>
    /\ done[1].nlive = 0
    /\ ~done[1].raised
    /\ done[1].outcome = done[1].before

\* C1 as amended: the second resolution makes no request and returns the
\* same outcome, unless the first one ended in the geocode tier with a Found
\* entry that has no non-empty place_id; then the second makes exactly one
\* request, the geocode request for the address.
C1_Idempotent ==
  done # <<>> /\ done[1].again =>
    IF done[1].tier = "geo" /\ Stale(done[1].before)
      THEN /\ done[1].nlive = 1
           /\ Requests = <<Event("geocode", done[1].address)>>
      ELSE /\ done[1].nlive = 0
           /\ ~done[1].raised
           /\ done[1].outcome = done[1].before

\* a first resolution that went to the provider and found coordinates, then
\* the same resolution again, answered from the cache
C1_Witness ==
  /\ done # <<>>
  /\ done[1].again
  /\ done[1].cost > 0
  /\ done[1].nlive = 0
  /\ done[1].outcome # None
  /\ done[1].outcome = done[1].before

\* a tier call looked the key up
Consults(c, key) == KeyOf(c) = key /\ c.arg # ""

\* a step of a run in which the key is null before it keeps it null and, if
\* the step is a tier call for the key, answers NotFound without a request
StaysNotFound(key) ==
  /\ key \in DOMAIN cache'
  /\ cache'[key] = None
  /\ (call' # <<>> /\ Consults(call'[1], key) =>
        /\ call'[1].ret = None
        /\ ~call'[1].raised
        /\ LiveEvents(call'[1].events) = <<>>)

\* C2 as stated: from the moment a key maps to null in the cache of a run,
\* whatever the run does next, the key stays null and every tier call for it
\* returns NotFound without a structured, legacy or geocode request.
C2_Original ==
  [][\A key \in DOMAIN cache :
       pc # "exited" /\ cache[key] = None => StaysNotFound(key)]_vars

\* C2 as amended: the same, from the moment the run has passed the optional
\* emptying of the loaded cache that --force-refresh asks for.
C2_NegativeCached ==
  [][\A key \in DOMAIN cache :
       pc \notin {"exited", "loaded"} /\ cache[key] = None =>
         StaysNotFound(key)]_vars

\* a tier call that found its key null and answered without a request
C2_Witness ==
  /\ call # <<>>
  /\ call[1].pre = <<None>>
  /\ Requests = <<>>
  /\ call[1].ret = None
  /\ cache[KeyOf(call[1])] = None
  /\ nrun = 2

\* C3: the place tier returns the result of the earliest candidate for which
\* a strategy succeeds, taken from the structured search when it succeeds
\* and from the legacy search only after the structured search missed; the
\* candidates before it are recorded as misses, and no candidate after it is
\* queried or has its key written.
C3_Precedence ==
  /\ (HasCall("find_place") /\ call[1].ret # None =>
        /\ done # <<>>
        /\ done[1].tier = "place"
        /\ done[1].outcome = call[1].ret
        /\ done[1].queries[done[1].hit] = call[1].arg)
  /\ (done # <<>> /\ done[1].tier = "place" =>
        LET d == done[1]
            i == d.hit
        IN /\ i \in 1..Len(d.queries)
           /\ d.asked = i
           /\ d.outcome # None
           /\ cache[PlaceKey(d.queries[i])] = d.outcome
           /\ \A j \in 1..(i - 1) : cache[PlaceKey(d.queries[j])] = None
           /\ \A j \in (i + 1)..Len(d.queries) :
                /\ PlaceKey(d.queries[j]) \notin d.wrote
                /\ d.queries[j] # d.queries[i] =>
                     /\ Event("new", d.queries[j]) \notin
                          {Requests[n] : n \in 1..Len(Requests)}
                     /\ Event("legacy", d.queries[j]) \notin
                          {Requests[n] : n \in 1..Len(Requests)})
  /\ (HasCall("find_place") /\ Requests # <<>> =>
        LET c == call[1]
        IN /\ Requests[1] = Event("new", c.arg)
           /\ Len(Requests) <= 2
           /\ Len(Requests) = 2 => Requests[2] = Event("legacy", c.arg)
           /\ c.ret # None /\ c.ret.place_id \in NewIds =>
                Len(Requests) = 1
           /\ c.ret # None /\ c.ret.place_id \in LegacyIds =>
                Len(Requests) = 2)

\* candidates [A, B]: the structured search missed A, the legacy search
\* found it, and B was never asked: its key is not in the cache
C3_Witness ==
  /\ done # <<>>
  /\ done[1].tier = "place"
  /\ Len(done[1].queries) = 2
  /\ done[1].hit = 1
  /\ HasCall("find_place")
  /\ Len(Requests) = 2
  /\ done[1].outcome.place_id \in LegacyIds
  /\ PlaceKey(done[1].queries[2]) \notin DOMAIN cache

\* C4: when every candidate misses and the address is non-empty, the record
\* makes exactly one geocode_address call, for the bare address; when every
\* candidate misses and the address is empty, the outcome is NotFound and
\* the only requests are the candidates' place searches; when a candidate is
\* found, the record makes no geocode_address call.
C4_FallbackChain ==
  done # <<>> =>
    LET d == done[1]
    IN /\ d.tier \in {"place", "geo", "none"}
       /\ (AllMiss(d) /\ d.address # "" =>
             /\ d.tier = "geo"
             /\ d.geo = 1
             /\ HasCall("geocode_address")
             /\ call[1].arg = d.address
             /\ KeyOf(call[1]) = d.address)
       /\ (AllMiss(d) /\ d.address = "" =>
             /\ d.tier = "none"
             /\ d.geo = 0
             /\ d.outcome = None
             /\ ~d.raised
             /\ ~HasCall("geocode_address")
             /\ d.nlive <= 2 * Len(d.queries))
       /\ (~AllMiss(d) =>
             /\ d.tier = "place"
             /\ d.outcome # None
             /\ d.geo = 0
             /\ ~HasCall("geocode_address"))

\* two candidates, both missed by both searches, then one geocode request
\* for the address, which found coordinates
C4_Witness ==
  /\ done # <<>>
  /\ done[1].tier = "geo"
  /\ Len(done[1].queries) = 2
  /\ AllMiss(done[1])
  /\ done[1].nlive = 5
  /\ done[1].geo = 1
  /\ done[1].outcome # None

\* the provider's answer to the geocode request of the last call is one the
\* code does not handle: an exception, an HTTP status other than 200, a
\* provider status outside OK / ZERO_RESULTS / NOT_FOUND
Unhandled(r) ==
  \/ r.exc
  \/ r.status_code # 200
  \/ r.status \notin Handled

\* C5: a geocode_address call that sends its request and gets an HTTP status
\* other than 200, or a provider status outside OK, ZERO_RESULTS and
\* NOT_FOUND, raises; and a geocode_address call that raises leaves the whole
\* cache mapping as it was before the call.
C5_AbortLeavesCache ==
  [][calls' # calls /\ HasCall("geocode_address")' =>
       LET c == call'[1]
       IN /\ (LiveEvents(c.events) # <<>> /\ Unhandled(answers'[1]) =>
                c.raised)
          /\ (c.raised => cache' = cache /\ c.pre = Before(cache', c.arg))]_vars

\* a quota answer to the request for an address the cache does not hold,
\* while the cache holds other entries
C5_Witness ==
  /\ HasCall("geocode_address")
  /\ call[1].raised
  /\ answers[1].status = "OVER_QUERY_LIMIT"
  /\ call[1].arg \notin DOMAIN cache
  /\ cache # EmptyDict

\* the number of requests of one kind sent for one argument in this run
Sent(kind, arg) == Count(live, Event(kind, arg))

\* C6: a run that has the credential and loads the cache saves the cache
\* exactly once, as its last step and so after its last record resolution,
\* whether its datasets complete or an error ends them part-way; the saved
\* file holds, for every key written during the run, the entry the cache
\* holds for it.
C6_SavedOnce ==
  /\ saves <= 1
  /\ (pc \notin {"exited", "calls"} => saves = 0)
  /\ (pc = "exited" /\ result \in {"exit2", "load_error"} => saves = 0)
  /\ (pc = "exited" /\ result = "crashed" => saves = 0)
  /\ (pc = "exited"
        /\ result \notin {"none", "exit2", "load_error", "crashed"} =>
        /\ result \in {"exit0", "error"}
        /\ saves = 1
        /\ disk.state = "json"
        /\ DOMAIN disk.data = DOMAIN cache
        /\ \A key \in written :
             /\ key \in DOMAIN disk.data
             /\ disk.data[key] =
                  (IF cache[key] = None THEN JNull ELSE cache[key]))

\* a run that wrote entries and was then ended by an error, after its save
C6_Witness ==
  /\ pc = "exited"
  /\ result = "error"
  /\ written # {}
  /\ saves = 1
  /\ \E key \in written : disk.data[key] # JNull

\* C7 as stated: in a run, no request is sent twice for the same key (each
\* place search at most once per query, the geocode request at most once
\* per address), and a tier call for a key the cache holds sends no request.
C7_Original ==
  [][/\ \A e \in DOMAIN live' : live'[e] <= 1
     /\ (call' # <<>> /\ LiveEvents(call'[1].events) # <<>> =>
           KeyOf(call'[1]) \notin DOMAIN cache)]_vars

\* C7 as amended: in a run, each place search is sent at most once per
\* query, and a find_place call for a key the cache holds sends no request;
\* a geocode_address call sends its request only when the cache does not
\* hold the address or holds for it a Found entry without a non-empty
\* place_id, so only such an address can be requested more than once.
C7_NoDuplicate ==
  [][/\ \A e \in DOMAIN live' :
          e.call \in {"new", "legacy"} => live'[e] <= 1
     /\ \A e \in DOMAIN live' :
          e.call = "geocode" /\ live'[e] > 1 /\ live'[e] # Count(live, e) =>
            e.arg \in DOMAIN cache /\ Stale(cache[e.arg])
     /\ (call' # <<>> /\ LiveEvents(call'[1].events) # <<>> =>
           IF call'[1].op = "find_place"
             THEN KeyOf(call'[1]) \notin DOMAIN cache
             ELSE \/ call'[1].arg \notin DOMAIN cache
                  \/ Stale(cache[call'[1].arg]))]_vars

\* a key fetched by one request earlier in the run is asked for again and
\* answered from the cache
C7_Witness ==
  /\ call # <<>>
  /\ call[1].pre # <<>>
  /\ Requests = <<>>
  /\ pc \in InLoop
  /\ Sent(IF call[1].op = "find_place" THEN "new" ELSE "geocode",
          call[1].arg) = 1

\* C8 as stated: geocode_address for an address whose cache entry is Found
\* and has no place_id returns that entry and makes no request.
C8_Original ==
  HasCall("geocode_address") /\ call[1].pre # <<>> =>
    LET entry == call[1].pre[1]
    IN entry # None /\ "place_id" \notin DOMAIN entry =>
         /\ Requests = <<>>
         /\ ~call[1].raised
         /\ call[1].ret = entry

\* C8 as amended: geocode_address for an address whose cache entry is Found
\* without a non-empty place_id makes exactly one geocode request and
\* returns and stores what that request yields, or raises and leaves the
\* entry; an entry that is null, or Found with a non-empty place_id, is
\* returned without a request.
C8_StaleRefetched ==
  HasCall("geocode_address") /\ call[1].pre # <<>> =>
    LET c == call[1]
        entry == c.pre[1]
    IN IF Stale(entry)
         THEN /\ Requests = <<Event("geocode", c.arg)>>
              /\ c.raised = (\/ Unhandled(answers[1])
                             \/ (/\ answers[1].status = "OK"
                                 /\ answers[1].items = <<>>))
              /\ c.raised => cache[c.arg] = entry
              /\ ~c.raised => cache[c.arg] = c.ret
              /\ ~c.raised /\ answers[1].status # "OK" => c.ret = None
              /\ ~c.raised /\ answers[1].status = "OK" =>
                   c.ret = GeocodeEntry(answers[1].items[1])
         ELSE /\ Requests = <<>>
              /\ ~c.raised
              /\ c.ret = entry
              /\ cache[c.arg] = entry

\* an entry without place_id was in the cache, and the call replaced it by
\* the new request's result, which has one
C8_Witness ==
  /\ HasCall("geocode_address")
  /\ call[1].pre # <<>>
  /\ Stale(call[1].pre[1])
  /\ "place_id" \notin DOMAIN call[1].pre[1]
  /\ ~call[1].raised
  /\ call[1].ret # None
  /\ HasPlaceId(call[1].ret)

\* C9 as stated: the file a run saves loads back to the mapping the run
\* saved, and saving the loaded mapping gives the same file.
C9_RoundTrip ==
  pc = "exited" /\ saves = 1 =>
    LET loaded == load_cache(disk)
    IN /\ ~loaded.raised
       /\ loaded.cache = cache
       /\ save_cache_dump(loaded.cache) = disk

\* C10: geocode_address for a non-empty address the cache does not hold: on
\* provider status OK it returns the first result's lat and lng, with the
\* result's place_id when it has a non-empty one, and on ZERO_RESULTS or
\* NOT_FOUND it returns NotFound; in both cases the cache then maps the
\* address to the value returned.
C10_Classification ==
  HasCall("geocode_address") /\ call[1].arg # "" /\ call[1].pre = <<>> =>
    LET c == call[1]
        r == answers[1]
        answered == ~r.exc /\ r.status_code = 200
    IN /\ (answered /\ r.status = "OK" /\ r.items # <<>> =>
             LET first == r.items[1]
                 given == "place_id" \in DOMAIN first /\ first.place_id # ""
             IN /\ ~c.raised
                /\ c.ret # None
                /\ c.ret.lat = Float(first.geometry.location.lat)
                /\ c.ret.lng = Float(first.geometry.location.lng)
                /\ DOMAIN c.ret =
                     {"lat", "lng"} \cup (IF given THEN {"place_id"} ELSE {})
                /\ given => c.ret.place_id = first.place_id
                /\ c.arg \in DOMAIN cache
                /\ cache[c.arg] = c.ret)
       /\ (answered /\ r.status \in {"ZERO_RESULTS", "NOT_FOUND"} =>
             /\ ~c.raised
             /\ c.ret = None
             /\ c.arg \in DOMAIN cache
             /\ cache[c.arg] = None)

\* an OK answer whose first result carries a place_id, for an address the
\* cache did not hold
C10_Witness ==
  /\ HasCall("geocode_address")
  /\ call[1].pre = <<>>
  /\ answers[1].status = "OK"
  /\ ~call[1].raised
  /\ call[1].ret # None
  /\ "place_id" \in DOMAIN call[1].ret
  /\ cache[call[1].arg] = call[1].ret

\* a Found value: coordinates, with or without an identifier
IsFound(value) ==
  /\ value # None
  /\ {"lat", "lng"} \subseteq DOMAIN value
  /\ DOMAIN value \subseteq {"lat", "lng", "place_id"}

\* C11: whatever the provider answers to either place search, find_place
\* returns Found or no result and does not raise; after a search that gave
\* nothing the legacy search is asked, after a query that gave nothing the
\* next candidate or the geocode tier comes, or the record ends NotFound;
\* and of the tiers only geocode_address ends a run with an error.
C11_PlaceNeverAborts ==
  /\ (HasCall("find_place") =>
        LET c == call[1]
        IN /\ ~c.raised
           /\ ~raising
           /\ pc \in InLoop
           /\ c.ret = None \/ IsFound(c.ret)
           /\ (c.caught \/ c.ret = None) /\ Requests # <<>> =>
                /\ Len(Requests) = 2
                /\ Requests[2] = Event("legacy", c.arg)
           /\ c.ret = None =>
                \/ stage = "places" /\ cur.queries[cur.qi - 1] = c.arg
                \/ stage = "geo" /\ cur.address # "" /\ cur.qi = Len(cur.queries)
                \/ /\ stage = "next"
                   /\ done # <<>>
                   /\ done[1].tier = "none"
                   /\ done[1].address = "")
  /\ (raising /\ call # <<>> =>
        call[1].op = "geocode_address" /\ call[1].raised)

\* both searches of the last candidate ended in an exception that find_place
\* caught; it returned no result and the record went on to the geocode tier
C11_Witness ==
  /\ HasCall("find_place")
  /\ call[1].caught
  /\ call[1].ret = None
  /\ Len(Requests) = 2
  /\ cache[PlaceKey(call[1].arg)] = None
  /\ stage = "geo"

\* the event is a throttle delay
IsSleep(e) == e.call = "sleep"

\* C12 as stated: with a throttle above 0 every request of a call is
\* followed at once by exactly one throttle delay, whatever it answered
\* (a request that makes geocode_address raise ends the run and is exempt);
\* a call answered from the cache makes no delay, and with throttle 0 no
\* call makes one.
C12_Throttle ==
  call # <<>> =>
    LET c == call[1]
        ev == c.events
        last == Len(ev)
    IN /\ throttle = 0 => \A i \in 1..last : ~IsSleep(ev[i])
       /\ Requests = <<>> => ev = <<>>
       /\ throttle > 0 =>
            \A i \in 1..last :
              IF IsSleep(ev[i])
                THEN i > 1 /\ ~IsSleep(ev[i - 1])
                ELSE \/ i < last /\ IsSleep(ev[i + 1])
                     \/ i = last /\ c.raised

\* C13 as stated: the key of a find_place call is never a key
\* geocode_address stored an entry under, and the key of a geocode_address
\* call is never a key find_place stored an entry under: a call that finds
\* its key in the cache finds an entry its own function stored.
C13_Disjoint ==
  [][calls' # calls =>
       LET c == call'[1]
           key == KeyOf(c)
       IN c.arg # "" /\ key \in DOMAIN cache => owner[key] = c.op]_vars

\* the cache file exists and is not JSON, or holds a non-null entry without
\* lat or without lng
Corrupt(file) ==
  \/ file.state = "invalid"
  \/ /\ file.state = "json"
     /\ \E addr \in DOMAIN file.data :
          file.data[addr] # JNull /\ ~Coercible(file.data[addr])

C15_NoCredential ==
  [][nrun' # nrun =>
       /\ api_key' = "" =>
            /\ result' = "exit2"
            /\ pc' = "exited"
            /\ disk' = disk
            /\ cache' = EmptyDict
            /\ nrec' = nrec
            /\ live' = EmptyDict
            /\ written' = {}
            /\ call' = <<>>
            /\ saves' = 0
       /\ result' = "exit2" => api_key' = ""]_vars

\* a run without credential on a cache file that holds entries: the run
\* ended with exit code 2 and loaded none of them
C15_Witness ==
  /\ nrun > 0
  /\ api_key = ""
  /\ result = "exit2"
  /\ pc = "exited"
  /\ disk.state = "json"
  /\ ~Corrupt(disk)
  /\ DOMAIN disk.data # {}
  /\ cache = EmptyDict

\* C16 as stated: every step of a save either leaves the cache file as it is
\* or puts the complete new mapping in its place, so a process killed during
\* the save leaves a file that loads: the previous content or the new one.
C16_AtomicSave ==
  [][(pc \in {"finally", "dumping"}) =>
       /\ disk' = disk \/ disk' = save_cache_dump(cache)
       /\ result' = "crashed" => ~Corrupt(disk')]_vars

\* a Found entry with both coordinates as numbers and nothing but the
\* coordinates and the identifier
WellFormed(entry) ==
  /\ {"lat", "lng"} \subseteq DOMAIN entry
  /\ DOMAIN entry \subseteq {"lat", "lng", "place_id"}
  /\ entry.lat \in Int
  /\ entry.lng \in Int

\* C17: in every state of a run every cache value is null or a Found entry
\* with both lat and lng as numbers, and so is every value of a cache file
\* the program has written.
C17_WellFormed ==
  /\ \A key \in DOMAIN cache :
       cache[key] = None \/ WellFormed(cache[key])
  /\ (disk.state = "json" /\ disk # FileUncoercible =>
        \A key \in DOMAIN disk.data :
          disk.data[key] = JNull \/ WellFormed(disk.data[key]))

\* a saved file that holds a null entry and a Found entry, loaded again by
\* the next run
C17_Witness ==
  /\ nrun = 2
  /\ pc = "loaded"
  /\ disk.state = "json"
  /\ \E key \in DOMAIN disk.data : disk.data[key] = JNull
  /\ \E key \in DOMAIN cache : cache[key] # None /\ WellFormed(cache[key])

\* C18: find_place with the empty query and geocode_address with the empty
\* address return no result without a request, without a delay and without
\* raising, and leave the cache mapping as it was: no entry is stored under
\* "place:" or under the empty string.
C18_EmptyNoOp ==
  [][calls' # calls /\ call'[1].arg = "" =>
       /\ call'[1].ret = None
       /\ ~call'[1].raised
       /\ call'[1].events = <<>>
       /\ call'[1].pre = <<>>
       /\ cache' = cache
       /\ "" \notin DOMAIN cache'
       /\ PlaceKey("") \notin DOMAIN cache']_vars

\* a call with the empty string on a cache that holds entries, with a
\* throttle set
C18_Witness ==
  /\ call # <<>>
  /\ call[1].arg = ""
  /\ call[1].ret = None
  /\ call[1].events = <<>>
  /\ throttle > 0
  /\ cache # EmptyDict

\* the addresses that are not also the cache key of a place query
PlainAddresses == CallAddresses \ {PlaceKey(query) : query \in CallQueries}

\* C19: an address that maps to a Found entry in the cache maps to a Found
\* entry after every later step, whatever the geocode provider answers
\* (stated for the addresses no place query shares its key with).
C19_FoundStays ==
  [][\A key \in DOMAIN cache \cap PlainAddresses :
       IsFound(cache[key]) => key \in DOMAIN cache' /\ IsFound(cache'[key])]_vars

\* a find_place call that has just returned for a query that is not empty
\* and whose key the cache did not hold
Attempted(c) == c.op = "find_place" /\ c.arg # "" /\ c.pre = <<>>

\* C20 as stated: after find_place returns for such a query the cache maps
\* "place:" + query to what it returned, Found or null, also when a search
\* raised or was answered with a transport status other than 200; and no
\* place search is sent for a query whose key the cache of the run holds or
\* the cache file left by an earlier run holds.
C20_Original ==
  [][call' # call /\ call' # <<>> /\ call'[1].op = "find_place" =>
       LET c == call'[1]
           key == PlaceKey(c.arg)
       IN /\ (Attempted(c) =>
                /\ ~c.raised
                /\ key \in DOMAIN cache'
                /\ cache'[key] = c.ret
                /\ (c.ret = None \/ IsFound(c.ret)))
          /\ (LiveEvents(c.events) # <<>> =>
                /\ key \notin DOMAIN cache
                /\ ~(disk.state = "json" /\ key \in DOMAIN disk.data))]_vars

\* C20 as amended: the same for the cache of the run; a run that has loaded
\* the cache file holds every key of the file until --force-refresh empties
\* its cache, and from then on to its end the cache loses no key.
C20_Recorded ==
  /\ [](pc = "loaded" /\ disk.state = "json" =>
          DOMAIN disk.data \subseteq DOMAIN cache)
  /\ [][(pc \notin {"exited", "loaded"} /\ pc' # "exited" =>
           DOMAIN cache \subseteq DOMAIN cache')
        /\ (call' # call /\ call' # <<>> /\ call'[1].op = "find_place" =>
              LET c == call'[1]
                  key == PlaceKey(c.arg)
              IN /\ (Attempted(c) =>
                       /\ ~c.raised
                       /\ key \in DOMAIN cache'
                       /\ cache'[key] = c.ret
                       /\ (c.ret = None \/ IsFound(c.ret)))
                 /\ (LiveEvents(c.events) # <<>> =>
                       /\ key \notin DOMAIN cache
                       /\ Attempted(c)))]_vars

\* both searches of a query raised or were refused, and the query is
\* recorded as a miss
C20_Witness ==
  /\ HasCall("find_place")
  /\ Attempted(call[1])
  /\ call[1].caught
  /\ Len(Requests) = 2
  /\ call[1].ret = None
  /\ cache[PlaceKey(call[1].arg)] = None

\* C21: every entry a place search stores under the key of its query has a
\* non-empty place_id besides lat and lng: after a find_place call that sent
\* a request and returned Found, the cache maps "place:" + query to an entry
\* with lat, lng and a non-empty place_id.
C21_PlaceHasId ==
  HasCall("find_place") /\ Requests # <<>> /\ call[1].ret # None =>
    LET entry == cache[PlaceKey(call[1].arg)]
    IN /\ entry = call[1].ret
       /\ IsFound(entry)
       /\ HasPlaceId(entry)

\* the keys of the cache file, when it holds a JSON mapping
FileKeys == IF disk.state = "json" THEN DOMAIN disk.data ELSE {}

\* C22 as stated: the mapping a run is about to save, also a run that aborts
\* and also a run with --force-refresh, holds every key of the file the run
\* loaded, and the file saved holds the keys of that mapping.
C22_Original ==
  /\ (pc = "finally" => FileKeys \subseteq DOMAIN cache)
  /\ (pc = "exited" /\ saves = 1 => FileKeys = DOMAIN cache)

\* C22 as amended: no resolution removes a key from the cache; without
\* --force-refresh the mapping a run is about to save, also a run that
\* aborts, holds every key of the file the run loaded; with --force-refresh
\* the loaded mapping is emptied before the first resolution and the mapping
\* saved holds the keys written during the run and no other; the file saved
\* holds the keys of the mapping.
C22_KeysGrow ==
  /\ [](pc \notin {"exited", "dumping"} /\ ~force_refresh =>
          FileKeys \subseteq DOMAIN cache)
  /\ [](pc \notin {"exited", "loaded"} /\ force_refresh =>
          DOMAIN cache = written)
  /\ [](pc = "exited" /\ saves = 1 => FileKeys = DOMAIN cache)
  /\ [][/\ pc \notin {"exited", "loaded"} =>
             DOMAIN cache \subseteq DOMAIN cache'
        /\ pc = "loaded" /\ pc' # "loaded" =>
             cache' = IF force_refresh' THEN EmptyDict ELSE cache]_vars

\* a second run without --force-refresh that loaded a file with entries, was
\* aborted by its geocode call and is about to save: every loaded key is in
\* the mapping
C22_Witness ==
  /\ nrun = 2
  /\ pc = "finally"
  /\ raising
  /\ ~force_refresh
  /\ HasCall("geocode_address")
  /\ call[1].raised
  /\ FileKeys # {}
  /\ FileKeys \subseteq DOMAIN cache

====
